---- MODULE Spec2Model ----
(***************************************************************************)
(* Iterative in-obstacle midpoint refinement (main.py / main_gif.py).      *)
(*                                                                         *)
(* Number model.  The program computes on Python floats.  Here a length is *)
(* an integer number of grid units, Unit grid units making 1.0, and every  *)
(* arithmetic result is rounded to the grid (a float rounds to 2^-53       *)
(* relative, the model to 1/Unit absolute).  A segment parameter t in      *)
(* [0, 1] is an integer number of 1/TScale, a component of a unit vector   *)
(* an integer number of 1/PerpScale.                                       *)
(*                                                                         *)
(* The literal 1e-10 of point_in_polygon is far below the grid.  It is     *)
(* kept as a quantity of its own: a coordinate is  x + ex*Eta  with x on   *)
(* the grid and ex a count of sub-grid quanta Eta, and 1e-10 is EpsQ       *)
(* quanta.  A comparison of two such values is decided by the grid part    *)
(* first, then by the Eta part, then by the Eta^2 part, which is the exact *)
(* real comparison for every magnitude that occurs.  Points produced by    *)
(* the refinement itself are on the grid (ex = ey = 0).                    *)
(***************************************************************************)
EXTENDS Integers, Sequences, FiniteSets, TLC

VARIABLES input, stack, segments, ret, arg, out

vars == <<input, stack, segments, ret, arg, out>>

(***************************************************************************)
(* Program constants, in model units.                                      *)
(***************************************************************************)
Step == 200            \* step=0.2           (Unit grid units = 1.0)
MaxIter == 20          \* max_iter=20
Steps == 20            \* steps=20
Tolerance == 100       \* tolerance=0.1
EpsQ == 8              \* 1e-10, as a number of sub-grid quanta Eta
Unit == 5 * Step
TScale == 65536
PerpScale == 50 * Unit

(***************************************************************************)
(* Bounds of the model.                                                    *)
(***************************************************************************)
MaxDepth == 40         \* deepest call stack explored

(***************************************************************************)
(* Arithmetic helpers.                                                     *)
(***************************************************************************)
Abs(a) == IF a < 0 THEN -a ELSE a

Sign(a) == IF a < 0 THEN -1 ELSE IF a > 0 THEN 1 ELSE 0

\* a / b rounded to the nearest integer, b > 0
RDiv(a, b) == (a \div b) + (IF 2 * (a % b) >= b THEN 1 ELSE 0)

\* sign of c0 + c1*Eta + c2*Eta^2 for a positive Eta below every grid ratio
LexSign(c0, c1, c2) == IF c0 # 0 THEN Sign(c0) ELSE IF c1 # 0 THEN Sign(c1) ELSE Sign(c2)

RECURSIVE SqrtSearch(_, _, _)
SqrtSearch(n, lo, hi) ==
    IF lo >= hi THEN lo
    ELSE LET m == (lo + hi + 1) \div 2
         IN  IF m * m <= n THEN SqrtSearch(n, m, hi) ELSE SqrtSearch(n, lo, m - 1)

\* math.hypot(dx, dy), rounded to the nearest grid unit
hypot(dx, dy) ==
    LET n == dx * dx + dy * dy
        r == SqrtSearch(n, 0, 46340)
    IN  IF n - r * r > r THEN r + 1 ELSE r

\* floor(r * 2^k / den) for 0 <= r < den, by long division
RECURSIVE FracBits(_, _, _)
FracBits(r, den, k) ==
    IF k = 0 THEN 0
    ELSE IF 2 * r >= den THEN 2 ^ (k - 1) + FracBits(2 * r - den, den, k - 1)
         ELSE FracBits(2 * r, den, k - 1)

\* num / den as a parameter in 1/TScale, for 0 <= num / den <= 1
Param(num, den) ==
    LET n == IF den < 0 THEN -num ELSE num
        d == Abs(den)
    IN  IF n >= d THEN TScale ELSE FracBits(n, d, 16)

(***************************************************************************)
(* Points: <<x, y>> on the grid, or <<x, y, ex, ey>> with sub-grid parts.  *)
(***************************************************************************)
PX(pt) == pt[1]
PY(pt) == pt[2]
EX(pt) == IF Len(pt) > 2 THEN pt[3] ELSE 0
EY(pt) == IF Len(pt) > 2 THEN pt[4] ELSE 0

(***************************************************************************)
(* Geometry kernel.                                                        *)
(***************************************************************************)
\* (yi > y) of the ray-casting test
Above(v, point) == PY(v) > PY(point) \/ (PY(v) = PY(point) /\ 0 > EY(point))

\* x < (xj - xi) * (y - yi) / (yj - yi + 1e-10) + xi, for yi # yj
LeftOfCrossing(point, vi, vj) ==
    LET d  == PY(vj) - PY(vi)
        W  == PX(vj) - PX(vi)
        A0 == PX(point) - PX(vi)
        B0 == PY(point) - PY(vi)
        c0 == A0 * d - W * B0
        c1 == A0 * EpsQ + EX(point) * d - W * EY(point)
        c2 == EX(point) * EpsQ
        s  == LexSign(c0, c1, c2)
    IN  IF d > 0 THEN s < 0 ELSE s > 0

\* the condition of one loop iteration: edge poly[j] -> poly[i], j = i - 1
Toggles(point, poly, i) ==
    LET n  == Len(poly)
        j  == IF i = 1 THEN n ELSE i - 1
        vi == poly[i]
        vj == poly[j]
    IN  /\ Above(vi, point) # Above(vj, point)
        /\ LeftOfCrossing(point, vi, vj)

point_in_polygon(point, poly) ==
    Cardinality({i \in 1..Len(poly) : Toggles(point, poly, i)}) % 2 = 1

\* <<tnum, unum, denom>> with t = tnum / denom, u = unum / denom; <<>> = None
line_intersection(p, q, a, b) ==
    LET x1 == PX(p)  y1 == PY(p)  x2 == PX(q)  y2 == PY(q)
        x3 == PX(a)  y3 == PY(a)  x4 == PX(b)  y4 == PY(b)
        denom == (x1 - x2) * (y3 - y4) - (y1 - y2) * (x3 - x4)
    IN  IF denom = 0 THEN <<>>
        ELSE << (x1 - x3) * (y3 - y4) - (y1 - y3) * (x3 - x4),
                (x1 - x3) * (y1 - y2) - (y1 - y3) * (x1 - x2),
                denom >>

\* 0 <= num / den <= 1
InUnit(num, den) ==
    IF den > 0 THEN 0 <= num /\ num <= den ELSE 0 >= num /\ num >= den

RECURSIVE Insert(_, _)
Insert(s, t) ==
    IF s = <<>> THEN <<t>>
    ELSE IF t < Head(s) THEN <<t>> \o s
         ELSE <<Head(s)>> \o Insert(Tail(s), t)

RECURSIVE sorted(_)
sorted(s) == IF s = <<>> THEN <<>> ELSE Insert(sorted(Tail(s)), Head(s))

RECURSIVE EdgeParams(_, _, _, _)
EdgeParams(p, q, poly, i) ==
    IF i > Len(poly) THEN <<>>
    ELSE LET a == poly[i]
             b == poly[(i % Len(poly)) + 1]
             result == line_intersection(p, q, a, b)
             hit == /\ result # <<>>
                    /\ InUnit(result[1], result[3])
                    /\ InUnit(result[2], result[3])
         IN  (IF hit THEN <<Param(result[1], result[3])>> ELSE <<>>)
                \o EdgeParams(p, q, poly, i + 1)

polygon_line_intersections(p, q, poly) == sorted(EdgeParams(p, q, poly, 1))

interpolate(p, t, q) ==
    << RDiv(PX(p) * (TScale - t) + PX(q) * t, TScale),
       RDiv(PY(p) * (TScale - t) + PY(q) * t, TScale) >>

\* unit vector in 1/PerpScale
perpendicular_direction(p, q) ==
    LET dx == PX(q) - PX(p)
        dy == PY(q) - PY(p)
        mag == hypot(dx, dy)
    IN  IF mag = 0 THEN <<0, 0>>
        ELSE << Sign(-dy) * RDiv(Abs(dy) * PerpScale, mag),
                Sign(dx) * RDiv(Abs(dx) * PerpScale, mag) >>

\* step * perp, per coordinate, on the grid
StepVector(perp) ==
    << Sign(perp[1]) * RDiv(Step * Abs(perp[1]), PerpScale),
       Sign(perp[2]) * RDiv(Step * Abs(perp[2]), PerpScale) >>

\* the candidate after i moves in direction sign
Moved(mid, delta, sign, i) ==
    << PX(mid) + sign * i * delta[1], PY(mid) + sign * i * delta[2] >>

\* variant: the candidate reached by the last move is tested too
EscapeRangeInclusive(max_iter) == 0 .. max_iter

\* range(max_iter): the move counts at which a candidate is tested
EscapeRange(max_iter) == 0 .. (max_iter - 1)

SetMin(S) == CHOOSE m \in S : \A k \in S : m <= k

\* variant: a walk that never left the polygon still yields its last candidate
WalkKeepsLast(mid, delta, sign, poly, max_iter) ==
    LET found == {i \in EscapeRange(max_iter) :
                     ~ point_in_polygon(Moved(mid, delta, sign, i), poly)}
    IN  IF found = {} THEN << <<Moved(mid, delta, sign, max_iter), max_iter * Step>> >>
        ELSE << <<Moved(mid, delta, sign, SetMin(found)), SetMin(found) * Step>> >>

\* inner loop for one sign: <<candidate, i>> of the break, or <<>>
Walk(mid, delta, sign, poly, max_iter) ==
    LET found == {i \in EscapeRange(max_iter) :
                     ~ point_in_polygon(Moved(mid, delta, sign, i), poly)}
    IN  IF found = {} THEN <<>>
        ELSE << <<Moved(mid, delta, sign, SetMin(found)), SetMin(found) * Step>> >>

\* candidates.sort(key=lambda x: x[1]); the sort is stable
RECURSIVE InsertByKey(_, _)
InsertByKey(s, c) ==
    IF s = <<>> THEN <<c>>
    ELSE IF c[2] < Head(s)[2] THEN <<c>> \o s
         ELSE <<Head(s)>> \o InsertByKey(Tail(s), c)

RECURSIVE SortByKey(_)
SortByKey(s) ==
    IF s = <<>> THEN <<>>
    ELSE InsertByKey(SortByKey(SubSeq(s, 1, Len(s) - 1)), s[Len(s)])

adjust_point_out_of_polygon(mid, p, q, poly, max_iter) ==
    LET perp == perpendicular_direction(p, q)
        delta == StepVector(perp)
        candidates == Walk(mid, delta, 1, poly, max_iter)
                         \o Walk(mid, delta, -1, poly, max_iter)
    IN  IF candidates = <<>> THEN mid
        ELSE SortByKey(candidates)[1][1]

(***************************************************************************)
(* Collision oracle.                                                       *)
(***************************************************************************)
\* t = i / steps
SampleParam(i, steps) == RDiv(i * TScale, steps)

\* range(steps + 1)
SampleRange(steps) == 0 .. steps

\* variant: only the first obstacle is tested
FirstObstacleFree(p, q, obstacles, steps) ==
    \A i \in SampleRange(steps) :
        \A k \in (1..Len(obstacles)) \cap {1} :
            ~ point_in_polygon(interpolate(p, SampleParam(i, steps), q), obstacles[k])

is_collision_free_poly(p, q, obstacles, steps) ==
    \A i \in SampleRange(steps) :
        \A k \in 1..Len(obstacles) :
            ~ point_in_polygon(interpolate(p, SampleParam(i, steps), q), obstacles[k])

(***************************************************************************)
(* Path refiner: the decisions of one refine_path call.                    *)
(***************************************************************************)
\* index of the first obstacle, in list order, with len(ts) >= 2; 0 if none
FirstBlocking(p, q, obstacles) ==
    LET hits == {k \in 1..Len(obstacles) :
                    Len(polygon_line_intersections(p, q, obstacles[k])) >= 2}
    IN  IF hits = {} THEN 0 ELSE SetMin(hits)

\* mid_adjusted of the intersection branch
IntersectionMid(p, q, poly) ==
    LET ts == polygon_line_intersections(p, q, poly)
        t_in == ts[1]
        t_out == ts[Len(ts)]
        t_mid == RDiv(t_in + t_out, 2)
        mid_candidate == interpolate(p, t_mid, q)
    IN  adjust_point_out_of_polygon(mid_candidate, p, q, poly, MaxIter)

\* the loop "for poly in obstacles: if point_in_polygon(mid, poly): mid = adjust"
RECURSIVE EscapeAll(_, _, _, _, _)
EscapeAll(mid, p, q, obstacles, k) ==
    IF k > Len(obstacles) THEN mid
    ELSE EscapeAll(IF point_in_polygon(mid, obstacles[k])
                   THEN adjust_point_out_of_polygon(mid, p, q, obstacles[k], MaxIter)
                   ELSE mid,
                   p, q, obstacles, k + 1)

\* mid of the fallback branch
FallbackMid(p, q, obstacles) ==
    EscapeAll(<< RDiv(PX(p) + PX(q), 2), RDiv(PY(p) + PY(q), 2) >>, p, q, obstacles, 1)

\* math.hypot(p[0]-mid[0], p[1]-mid[1]) < tolerance
WithinTolerance(p, mid, tolerance) ==
    (PX(p) - PX(mid)) * (PX(p) - PX(mid)) + (PY(p) - PY(mid)) * (PY(p) - PY(mid))
        < tolerance * tolerance

\* variant: the goal end is left out
AcceptPathStartOnly(p, q) == <<p>>

\* [p, q]
AcceptPath(p, q) == <<p, q>>

\* [p, mid, q]
TerminatePath(p, mid, q) == <<p, mid, q>>

\* variant: left_path[1:] + right_path
JoinPathsDropStart(left_path, right_path) == Tail(left_path) \o right_path

\* variant: left_path + right_path
JoinPathsKeepJunction(left_path, right_path) == left_path \o right_path

\* left_path[:-1] + right_path
JoinPaths(left_path, right_path) ==
    SubSeq(left_path, 1, Len(left_path) - 1) \o right_path

\* variant: the depth is passed on unchanged
ChildDepthSame(depth) == depth

\* depth+1
ChildDepth(depth) == depth + 1

\* (p, q, depth)
TraceRecord(p, q, depth) == <<p, q, depth>>

(***************************************************************************)
(* The call stack of refine_path.                                          *)
(***************************************************************************)
NoPoint == <<>>
NoPath == <<>>
NoReturn == [p |-> NoPoint, q |-> NoPoint, path |-> NoPath]

Frame(p, q, depth) ==
    [p |-> p, q |-> q, depth |-> depth, pc |-> "entry", kind |-> "none",
     mid |-> NoPoint, left |-> NoPath]

Top == stack[Len(stack)]
Pop == SubSeq(stack, 1, Len(stack) - 1)
SetTop(f) == [stack EXCEPT ![Len(stack)] = f]
Obstacles == input.call.obstacles

AtEntry == stack # <<>> /\ Top.pc = "entry"

\* line 112, then lines 114-115
Accept ==
    /\ AtEntry
    /\ is_collision_free_poly(Top.p, Top.q, Obstacles, Steps)
    /\ segments' = Append(segments, TraceRecord(Top.p, Top.q, Top.depth))
    /\ ret' = [p |-> Top.p, q |-> Top.q, path |-> AcceptPath(Top.p, Top.q)]
    /\ stack' = Pop
    /\ UNCHANGED <<input, arg, out>>

\* line 112, then lines 118-128 up to the first child call
SplitByIntersection ==
    /\ AtEntry
    /\ Len(stack) < MaxDepth
    /\ ~ is_collision_free_poly(Top.p, Top.q, Obstacles, Steps)
    /\ FirstBlocking(Top.p, Top.q, Obstacles) # 0
    /\ LET poly == Obstacles[FirstBlocking(Top.p, Top.q, Obstacles)]
           mid_adjusted == IntersectionMid(Top.p, Top.q, poly)
       IN  stack' = Append(SetTop([Top EXCEPT !.pc = "left", !.kind = "intersection",
                                              !.mid = mid_adjusted]),
                           Frame(Top.p, mid_adjusted, ChildDepth(Top.depth)))
    /\ segments' = Append(segments, TraceRecord(Top.p, Top.q, Top.depth))
    /\ ret' = NoReturn
    /\ UNCHANGED <<input, arg, out>>

\* line 112, then lines 133-138
FallbackTerminate ==
    /\ AtEntry
    /\ ~ is_collision_free_poly(Top.p, Top.q, Obstacles, Steps)
    /\ FirstBlocking(Top.p, Top.q, Obstacles) = 0
    /\ LET mid == FallbackMid(Top.p, Top.q, Obstacles)
       IN  /\ WithinTolerance(Top.p, mid, Tolerance)
           /\ ret' = [p |-> Top.p, q |-> Top.q, path |-> TerminatePath(Top.p, mid, Top.q)]
    /\ segments' = Append(segments, TraceRecord(Top.p, Top.q, Top.depth))
    /\ stack' = Pop
    /\ UNCHANGED <<input, arg, out>>

\* line 112, then lines 133-139 up to the first child call
FallbackRecurse ==
    /\ AtEntry
    /\ Len(stack) < MaxDepth
    /\ ~ is_collision_free_poly(Top.p, Top.q, Obstacles, Steps)
    /\ FirstBlocking(Top.p, Top.q, Obstacles) = 0
    /\ LET mid == FallbackMid(Top.p, Top.q, Obstacles)
       IN  /\ ~ WithinTolerance(Top.p, mid, Tolerance)
           /\ stack' = Append(SetTop([Top EXCEPT !.pc = "left", !.kind = "fallback",
                                                  !.mid = mid]),
                              Frame(Top.p, mid, ChildDepth(Top.depth)))
    /\ segments' = Append(segments, TraceRecord(Top.p, Top.q, Top.depth))
    /\ ret' = NoReturn
    /\ UNCHANGED <<input, arg, out>>

\* the left child has returned: lines 128-129 and 139-140
ReturnLeft ==
    /\ stack # <<>>
    /\ Top.pc = "left"
    /\ ret.path # NoPath
    /\ stack' = Append(SetTop([Top EXCEPT !.pc = "right", !.left = ret.path]),
                       Frame(Top.mid, Top.q, ChildDepth(Top.depth)))
    /\ ret' = NoReturn
    /\ UNCHANGED <<input, segments, arg, out>>

\* the right child has returned: lines 129-130 and 140-141
ReturnRight ==
    /\ stack # <<>>
    /\ Top.pc = "right"
    /\ ret.path # NoPath
    /\ ret' = [p |-> Top.p, q |-> Top.q, path |-> JoinPaths(Top.left, ret.path)]
    /\ stack' = Pop
    /\ UNCHANGED <<input, segments, arg, out>>

Done == stack = <<>> /\ ret.path # NoPath

(***************************************************************************)
(* Inputs of the root call.                                                *)
(***************************************************************************)
Pt(x, y) == <<x * Unit, y * Unit>>

\* obstacle1 .. obstacle4 of the example
obstacle1 == << Pt(4, 4), Pt(7, 4), Pt(7, 7), Pt(4, 7) >>
obstacle2 == << Pt(2, 8), Pt(3, 11), Pt(1, 10) >>
obstacle3 == << Pt(2, 2), Pt(3, 6), Pt(4, 2) >>
obstacle4 == << <<6500, 8000>>, <<6500, 9500>>, <<8000, 9500>>, <<8000, 8000>> >>

\* further obstacles
UnitSquare == << Pt(-1, -1), Pt(1, -1), Pt(1, 1), Pt(-1, 1) >>
WideSquare == << Pt(-5, -5), Pt(5, -5), Pt(5, 5), Pt(-5, 5) >>
ThickSlab == << <<1100, -3900>>, <<8900, -3900>>, <<8900, 3900>>, <<1100, 3900>> >>
TouchingTriangle == << Pt(-1, -2), Pt(1, -2), Pt(0, 0) >>

Call(start, goal, obstacles) == [start |-> start, goal |-> goal, obstacles |-> obstacles]

Scenarios ==
    { Call(Pt(0, 0), Pt(1, 0), <<>>),
      Call(Pt(0, 0), Pt(10, 10), <<obstacle1>>),
      Call(Pt(0, 0), Pt(10, 10), <<obstacle1, obstacle2, obstacle3, obstacle4>>),
      Call(Pt(0, 0), Pt(1, 0), <<WideSquare>>),
      Call(Pt(0, 0), Pt(10, 0), <<ThickSlab>>),
      Call(Pt(0, 0), Pt(3, 0), <<UnitSquare>>),
      Call(Pt(0, 0), Pt(10, 10), <<TouchingTriangle, obstacle1>>) }

\* what the trace may hold when refine_path is called
StaleTraces == { <<>>, << TraceRecord(Pt(9, 9), Pt(8, 8), 3) >> }

NoArg == [point |-> NoPoint, p |-> NoPoint, q |-> NoPoint, poly |-> <<>>]
NoOut == [done |-> FALSE, point |-> NoPoint, inside |-> FALSE]
NoInput == [call |-> Call(NoPoint, NoPoint, <<>>), pre |-> <<>>]

Init ==
    /\ input \in { [call |-> c, pre |-> s] : c \in Scenarios, s \in StaleTraces }
    /\ stack = << Frame(input.call.start, input.call.goal, 0) >>
    /\ segments = input.pre
    /\ ret = NoReturn
    /\ arg = NoArg
    /\ out = NoOut

Next ==
    \/ Accept
    \/ SplitByIntersection
    \/ FallbackTerminate
    \/ FallbackRecurse
    \/ ReturnLeft
    \/ ReturnRight

Spec == Init /\ [][Next]_vars

(***************************************************************************)
(* adjust_point_out_of_polygon applied to bounded inputs.                  *)
(***************************************************************************)
EscapePolygons == { UnitSquare, WideSquare, ThickSlab, obstacle1, obstacle3 }

EscapeChords ==
    { <<Pt(0, 0), Pt(10, 0)>>, <<Pt(0, 0), Pt(0, 10)>>, <<Pt(0, 0), Pt(10, 10)>>,
      <<Pt(0, 0), Pt(3, 4)>>, <<Pt(5, 5), Pt(5, 5)>> }

EscapeMids ==
    { Pt(0, 0), <<500, 300>>, Pt(5, 0), <<5500, 5500>>, Pt(3, 3), <<5000, 100>>,
      <<900, 0>> }

InitEscape ==
    /\ arg \in { [point |-> m, p |-> c[1], q |-> c[2], poly |-> poly] :
                   m \in EscapeMids, c \in EscapeChords, poly \in EscapePolygons }
    /\ out = NoOut
    /\ input = NoInput
    /\ stack = <<>>
    /\ segments = <<>>
    /\ ret = NoReturn

ApplyEscape ==
    /\ ~ out.done
    /\ arg.poly # <<>>
    /\ arg.p # NoPoint
    /\ out' = [done |-> TRUE,
               point |-> adjust_point_out_of_polygon(arg.point, arg.p, arg.q, arg.poly, MaxIter),
               inside |-> point_in_polygon(arg.point, arg.poly)]
    /\ UNCHANGED <<input, stack, segments, ret, arg>>

NextEscape == ApplyEscape

SpecEscape == InitEscape /\ [][NextEscape]_vars

(***************************************************************************)
(* point_in_polygon applied to bounded inputs, sub-grid offsets included.  *)
(***************************************************************************)
Reverse(s) == [i \in 1..Len(s) |-> s[Len(s) + 1 - i]]

Wedge == << Pt(0, -1), Pt(1, 0), Pt(0, 1) >>

ConvexPolygons ==
    { Wedge, Reverse(Wedge), obstacle1, Reverse(obstacle1), obstacle3, Reverse(obstacle3) }

ProbeCoords == { -1000, 0, 500, 1000, 2000, 3000, 4000, 5000, 7000 }
\* sub-grid offsets, chosen off the directions of the polygons' edges
ProbeOffsetsX == { -1, 0, 1 }
ProbeOffsetsY == { -2, 0, 2 }

InitPIP ==
    /\ arg \in { [point |-> <<x, y, ex, ey>>, p |-> NoPoint, q |-> NoPoint, poly |-> poly] :
                   x \in ProbeCoords, y \in ProbeCoords,
                   ex \in ProbeOffsetsX, ey \in ProbeOffsetsY, poly \in ConvexPolygons }
    /\ out = NoOut
    /\ input = NoInput
    /\ stack = <<>>
    /\ segments = <<>>
    /\ ret = NoReturn

ApplyPIP ==
    /\ ~ out.done
    /\ arg.poly # <<>>
    /\ arg.p = NoPoint
    /\ out' = [done |-> TRUE, point |-> arg.point,
               inside |-> point_in_polygon(arg.point, arg.poly)]
    /\ UNCHANGED <<input, stack, segments, ret, arg>>

NextPIP == ApplyPIP

SpecPIP == InitPIP /\ [][NextPIP]_vars

(***************************************************************************)
(* Properties of the escape search.                                        *)
(***************************************************************************)
EscapeDelta == StepVector(perpendicular_direction(arg.p, arg.q))

\* the point k steps from the queried mid in direction sign
Displaced(sign, k) == Moved(arg.point, EscapeDelta, sign, k)

Outside(pt) == ~ point_in_polygon(pt, arg.poly)

\* C3: Escape postcondition.  For a mid inside the polygon the result is
\* either a point outside the polygon that is mid displaced by k steps
\* (0 <= k <= max_iter) along one of the two perpendicular directions, or mid
\* itself; for a degenerate chord p = q it is mid itself.
C3_EscapePostcondition ==
    (out.done /\ arg.p # NoPoint /\ point_in_polygon(arg.point, arg.poly)) =>
        /\ \/ out.point = arg.point
           \/ /\ Outside(out.point)
              /\ \E sign \in {1, -1} : \E k \in 0..MaxIter : out.point = Displaced(sign, k)
        /\ (arg.p = arg.q => out.point = arg.point)

\* a mid inside the polygon was moved out of it
C3_Witness ==
    /\ out.done /\ arg.p # NoPoint
    /\ point_in_polygon(arg.point, arg.poly)
    /\ out.point # arg.point
    /\ Outside(out.point)

\* fewest steps at which direction sign leaves the polygon, within reach; -1 if none
FewestSteps(sign, reach) ==
    LET ks == {k \in 0..reach : Outside(Displaced(sign, k))}
    IN  IF ks = {} THEN -1 ELSE SetMin(ks)

\* the result demanded when each direction is searched up to reach steps
SelectedEscape(reach) ==
    LET kp == FewestSteps(1, reach)
        km == FewestSteps(-1, reach)
    IN  IF kp = -1 /\ km = -1 THEN arg.point
        ELSE IF km = -1 THEN Displaced(1, kp)
        ELSE IF kp = -1 THEN Displaced(-1, km)
        ELSE IF kp <= km THEN Displaced(1, kp) ELSE Displaced(-1, km)

\* C8 as stated: each direction succeeds at the smallest k <= max_iter whose
\* displaced point is outside; the result is the candidate with the fewest
\* steps, +1 on a tie, and mid when no direction succeeds.
C8_ReachMaxIter ==
    (out.done /\ arg.p # NoPoint) => out.point = SelectedEscape(MaxIter)

\* C8 amended: each direction succeeds at the smallest k <= max_iter - 1 whose
\* displaced point is outside (the point max_iter steps away is never
\* tested); the result is the candidate with the fewest steps, +1 on a tie,
\* and mid when no direction succeeds.
C8_ReachBelowMaxIter ==
    (out.done /\ arg.p # NoPoint) => out.point = SelectedEscape(MaxIter - 1)

\* both directions leave the polygon in the same number of steps, and +1 is chosen
C8_Witness ==
    /\ out.done /\ arg.p # NoPoint
    /\ FewestSteps(1, MaxIter - 1) >= 1
    /\ FewestSteps(1, MaxIter - 1) = FewestSteps(-1, MaxIter - 1)
    /\ Displaced(1, 1) # Displaced(-1, 1)
    /\ out.point = Displaced(1, FewestSteps(1, MaxIter - 1))

(***************************************************************************)
(* Properties of point_in_polygon.                                         *)
(***************************************************************************)
NextIndex(poly, i) == (i % Len(poly)) + 1

\* sign of the cross product (b - a) x (point - a), sub-grid parts included
SideOfEdge(point, a, b) ==
    LexSign((PX(b) - PX(a)) * (PY(point) - PY(a)) - (PY(b) - PY(a)) * (PX(point) - PX(a)),
            (PX(b) - PX(a)) * EY(point) - (PY(b) - PY(a)) * EX(point),
            0)

StrictlyInsideConvex(point, poly) ==
    \/ \A i \in 1..Len(poly) : SideOfEdge(point, poly[i], poly[NextIndex(poly, i)]) = 1
    \/ \A i \in 1..Len(poly) : SideOfEdge(point, poly[i], poly[NextIndex(poly, i)]) = -1

\* v < w for grid parts v, w and sub-grid parts ev, ew
LexLess(v, ev, w, ew) == v < w \/ (v = w /\ ev < ew)

OutsideBoundingBox(point, poly) ==
    \/ \A i \in 1..Len(poly) : LexLess(PX(point), EX(point), PX(poly[i]), 0)
    \/ \A i \in 1..Len(poly) : LexLess(PX(poly[i]), 0, PX(point), EX(point))
    \/ \A i \in 1..Len(poly) : LexLess(PY(point), EY(point), PY(poly[i]), 0)
    \/ \A i \in 1..Len(poly) : LexLess(PY(poly[i]), 0, PY(point), EY(point))

\* C4: for a convex polygon, point_in_polygon is true of every point strictly
\* inside it and false of every point with a coordinate outside its bounding box.
C4_ReferenceContainment ==
    (out.done /\ arg.p = NoPoint) =>
        /\ StrictlyInsideConvex(arg.point, arg.poly) => out.inside
        /\ OutsideBoundingBox(arg.point, arg.poly) => ~ out.inside

(***************************************************************************)
(* Properties of refine_path.                                              *)
(***************************************************************************)
Last(s) == s[Len(s)]

Returned == ret.path # NoPath

\* C1: Endpoint preservation.  Whenever a refine_path call returns, nested
\* calls included, its result has at least two points, starts with the
\* call's p and ends with the call's q; the root call's result starts with
\* the start and ends with the goal.
C1_EndpointPreservation ==
    /\ Returned => /\ Len(ret.path) >= 2
                   /\ ret.path[1] = ret.p
                   /\ Last(ret.path) = ret.q
    /\ Done => /\ ret.path[1] = input.call.start
               /\ Last(ret.path) = input.call.goal

\* the root call has returned a path built from nested calls
C1_Witness == Done /\ Len(ret.path) >= 4 /\ Obstacles # <<>>

\* C2: Base case.  A call whose segment is_collision_free_poly returns
\* exactly [p, q] and makes no child call; with no obstacles every segment
\* is collision free.
C2_BaseCaseStep ==
    AtEntry =>
        /\ is_collision_free_poly(Top.p, Top.q, Obstacles, Steps) =>
               /\ stack' = Pop
               /\ ret'.path = <<Top.p, Top.q>>
        /\ Obstacles = <<>> => is_collision_free_poly(Top.p, Top.q, Obstacles, Steps)

C2_BaseCase == [][C2_BaseCaseStep]_vars

\* start (0,0), goal (1,0), no obstacles: the result is [(0,0), (1,0)]
C2_Witness ==
    /\ Done /\ Obstacles = <<>>
    /\ input.call.start = Pt(0, 0) /\ input.call.goal = Pt(1, 0)
    /\ ret.path = << Pt(0, 0), Pt(1, 0) >>

\* the records appended since the root call
Appended == SubSeq(segments, Len(input.pre) + 1, Len(segments))

RecDepth(r) == r[3]

\* record k of tr is the root, or a left or right child of the nearest
\* earlier record one level up
InCallOrder(tr, k) ==
    IF k = 1 THEN tr[1] = <<input.call.start, input.call.goal, 0>>
    ELSE /\ RecDepth(tr[k]) >= 1
         /\ \E j \in 1..(k - 1) :
               /\ RecDepth(tr[j]) = RecDepth(tr[k]) - 1
               /\ \A i \in (j + 1)..(k - 1) : RecDepth(tr[i]) >= RecDepth(tr[k])
               /\ \/ k = j + 1 /\ tr[k][1] = tr[j][1]
                  \/ /\ k > j + 1
                     /\ RecDepth(tr[j + 1]) = RecDepth(tr[k])
                     /\ \A i \in (j + 2)..(k - 1) : RecDepth(tr[i]) > RecDepth(tr[k])
                     /\ tr[j + 1][1] = tr[j][1]
                     /\ tr[k][1] = tr[j + 1][2]
                     /\ tr[k][2] = tr[j][2]

TraceIsPreOrder ==
    /\ Len(segments) >= Len(input.pre)
    /\ SubSeq(segments, 1, Len(input.pre)) = input.pre
    /\ \A k \in 1..Len(Appended) : InCallOrder(Appended, k)

\* a call appends its record at entry; nothing else touches the trace
TraceStep ==
    /\ AtEntry => segments' = Append(segments, <<Top.p, Top.q, Top.depth>>)
    /\ ~ AtEntry => segments' = segments

\* a root call that accepts, or splits once into two accepted halves,
\* returns the path its arguments determine, whatever the trace held
PathIgnoresTrace ==
    Done =>
        LET s == input.call.start
            g == input.call.goal
            k == FirstBlocking(s, g, Obstacles)
            m == IntersectionMid(s, g, Obstacles[k])
        IN  /\ is_collision_free_poly(s, g, Obstacles, Steps) => ret.path = <<s, g>>
            /\ ( /\ ~ is_collision_free_poly(s, g, Obstacles, Steps)
                 /\ k # 0
                 /\ is_collision_free_poly(s, m, Obstacles, Steps)
                 /\ is_collision_free_poly(m, g, Obstacles, Steps) )
               => ret.path = <<s, m, g>>

\* C5: Trace order.  Every call appends exactly one record (p, q, depth) at
\* entry, so the trace lists the call tree in call order: root at depth 0,
\* children one level below their parent, the left subtree before the right
\* one; the trace is only appended to, and the returned path does not depend
\* on what it held.
C5_TraceOrder == [](TraceIsPreOrder /\ PathIgnoresTrace) /\ [][TraceStep]_vars

\* a finished call tree of at least five calls on a trace that was not empty
C5_Witness ==
    /\ Done
    /\ input.pre # <<>>
    /\ Len(Appended) >= 5
    /\ \E k \in 1..Len(Appended) : RecDepth(Appended[k]) >= 2

\* every frame below the top is waiting for the child above it
StackLinked ==
    \A i \in 1..(Len(stack) - 1) :
        LET f == stack[i]
            c == stack[i + 1]
        IN  /\ f.kind \in {"intersection", "fallback"}
            /\ f.pc \in {"left", "right"}
            /\ c.depth = f.depth + 1
            /\ f.pc = "left" => c.p = f.p /\ c.q = f.mid
            /\ f.pc = "right" => c.p = f.mid /\ c.q = f.q /\ f.left # NoPath

OutcomeStep ==
    /\ AtEntry =>
          \/ stack' = Pop /\ ret'.path = <<Top.p, Top.q>>
          \/ /\ stack' = Pop
             /\ Len(ret'.path) = 3
             /\ ret'.path[1] = Top.p /\ ret'.path[3] = Top.q
          \/ /\ Len(stack') = Len(stack) + 1
             /\ stack'[Len(stack)].pc = "left"
             /\ stack'[Len(stack)].kind \in {"intersection", "fallback"}
             /\ stack'[Len(stack')] = Frame(Top.p, stack'[Len(stack)].mid, Top.depth + 1)
    /\ (stack # <<>> /\ Top.pc = "left") =>
          /\ Len(stack') = Len(stack) + 1
          /\ stack'[Len(stack)] = [Top EXCEPT !.pc = "right", !.left = ret.path]
          /\ stack'[Len(stack')] = Frame(Top.mid, Top.q, Top.depth + 1)
    /\ (stack # <<>> /\ Top.pc = "right") =>
          /\ stack' = Pop
          /\ Len(ret'.path) = Len(Top.left) + Len(ret.path) - 1
          /\ SubSeq(ret'.path, 1, Len(Top.left)) = Top.left
          /\ SubSeq(ret'.path, Len(Top.left), Len(ret'.path)) = ret.path
          /\ ret'.path[Len(Top.left)] = Top.mid

\* C6: Call outcomes.  A call accepts ([p, q]), terminates in the fallback
\* ([p, mid, q]) or splits; a split makes exactly two child calls, (p, m)
\* then (m, q), and returns left[:-1] + right: len(left) + len(right) - 1
\* points, left before right, the junction m once at the seam.
C6_CallOutcomes == []StackLinked /\ [][OutcomeStep]_vars

\* a finished call tree holding an intersection split and a fallback termination
C6_Witness ==
    /\ Done
    /\ Len(ret.path) >= 5
    /\ FirstBlocking(input.call.start, input.call.goal, Obstacles) # 0
    /\ \E k \in 1..(Len(ret.path) - 1) :
          ~ is_collision_free_poly(ret.path[k], ret.path[k + 1], Obstacles, Steps)

\* C7: Fallback branch termination.  A chain of nested calls in which every
\* split is a fallback split is finite: no call of such a chain is made on
\* the segment of one of its ancestors.
C7_FallbackChainsFinite ==
    \A i \in 1..Len(stack) : \A j \in (i + 1)..Len(stack) :
        (\A k \in i..(j - 1) : stack[k].kind = "fallback")
            => <<stack[i].p, stack[i].q>> # <<stack[j].p, stack[j].q>>

\* no one of the steps + 1 samples of a -> b is inside an obstacle
SamplesClear(a, b) ==
    \A i \in 0..Steps : \A k \in 1..Len(Obstacles) :
        ~ point_in_polygon(interpolate(a, RDiv(i * TScale, Steps), b), Obstacles[k])

\* the call of trace record r ends in Fallback-Terminate
IsTerminateCall(r) ==
    /\ ~ is_collision_free_poly(r[1], r[2], Obstacles, Steps)
    /\ FirstBlocking(r[1], r[2], Obstacles) = 0
    /\ WithinTolerance(r[1], FallbackMid(r[1], r[2], Obstacles), Tolerance)

\* (a, b) is (p, mid) or (mid, q) of a Fallback-Terminate call of the trace
FromTerminate(a, b) ==
    \E n \in 1..Len(Appended) :
        LET r == Appended[n]
        IN  /\ a = r[1] \/ b = r[2]
            /\ IsTerminateCall(r)
            /\ LET mid == FallbackMid(r[1], r[2], Obstacles)
               IN  <<a, b>> = <<r[1], mid>> \/ <<a, b>> = <<mid, r[2]>>

\* C9: Stopping condition.  Every adjacent pair of a returned path is the
\* segment of an Accept call, with all 21 samples outside every obstacle, or
\* one of the pairs (p, mid), (mid, q) of a Fallback-Terminate call; so when
\* no call ends in Fallback-Terminate no sample of the path is in an obstacle.
C9_StoppingCondition ==
    Returned =>
        /\ \A k \in 1..(Len(ret.path) - 1) :
              \/ SamplesClear(ret.path[k], ret.path[k + 1])
              \/ FromTerminate(ret.path[k], ret.path[k + 1])
        /\ (\A n \in 1..Len(Appended) : ~ IsTerminateCall(Appended[n]))
              => \A k \in 1..(Len(ret.path) - 1) :
                    SamplesClear(ret.path[k], ret.path[k + 1])

\* start (0,0), goal (10,10), the square obstacle: a path around the square
C9_Witness ==
    /\ Done
    /\ input.call = Call(Pt(0, 0), Pt(10, 10), <<obstacle1>>)
    /\ Len(ret.path) = 3
    /\ \A k \in 1..2 : SamplesClear(ret.path[k], ret.path[k + 1])

\* C10: Progress of the intersection branch.  The junction of an
\* intersection split differs from p and from q, so no child call is made
\* on its parent's segment.
C10_IntersectionProgress ==
    \A i \in 1..Len(stack) :
        stack[i].kind = "intersection" =>
            stack[i].mid # stack[i].p /\ stack[i].mid # stack[i].q

====
